---- MODULE Spec2Model ----
(***************************************************************************)
(* Santander Mind Map: the tree layout algorithm (layoutTree), the         *)
(* displayedNodes pipeline (height derivation, reachability filter,       *)
(* layout) and the App handlers that change the node collection and the   *)
(* filter state.                                                           *)
(*                                                                         *)
(* Conventions.                                                            *)
(*  - A JavaScript string is a sequence of one-character strings.          *)
(*  - null is NULL (-1); a JavaScript value is falsy when it is null or 0. *)
(*  - layoutTree halves (subtreeHeight - height), which may be odd, so a   *)
(*    node's vertical position is kept in half pixels: field y2 = 2 * y.   *)
(*    Band tops (the y argument of setPositions) are whole pixels.         *)
(*  - A recursion or loop of the source that never ends (a stack overflow  *)
(*    of the recursive closures, a spinning while loop) is reported by an  *)
(*    ok = FALSE result: the walk is cut when it is deeper than the number *)
(*    of nodes, which happens exactly when it revisits an id.              *)
(***************************************************************************)
EXTENDS Integers, Sequences, FiniteSets, TLC

VARIABLES
    nodes,              \* useState<Node[]>: the stored node collection
    owners,             \* useState<Owner[]>
    meetings,           \* useState<Meeting[]>
    searchQuery,        \* useState('')
    priorityFilter,     \* useState<Priority | null>(null)
    filterByNodeId,     \* useState<number | null>(null)
    filterByMeetingId,  \* useState<number | null>(null)
    reparentingNodeId,  \* useState<number | null>(null)
    now,                \* the value Date.now() returns
    displayedNodes,     \* the useMemo result: [ok, nodes]
    hung,               \* a handler or render of the page never returned
    lastOp              \* what ran last: a click on a node card with the node clicked
                        \* and the outcome, an import with its outcome, a call of
                        \* one of the pure functions, or some other handler

vars == <<nodes, owners, meetings, searchQuery, priorityFilter, filterByNodeId,
          filterByMeetingId, reparentingNodeId, now, displayedNodes, hung, lastOp>>

----------------------------------------------------------------------------
(* Bounds of the model *)

MaxNodes == 2       \* nodes up to which the application adds a node
MaxEditNodes == 3   \* the same, where only adding and reparenting are taken
MaxForest == 4      \* nodes in an input of the displayedNodes pipeline
MaxLayout == 4      \* nodes in an input of layoutTree
MaxClock == 3       \* largest value of Date.now()

(* Program constants *)

NULL == -1
UNDEFINED == -2
BASE_NODE_HEIGHT == 60
SUBTASK_HEIGHT == 28
METADATA_ROW_HEIGHT == 40
LINK_ROW_EXTRA_HEIGHT == 35
H_SPACE == 120
V_SPACE == 20
ROOT_X == 50
ROOT_Y == 50
NODE_WIDTH == 220

----------------------------------------------------------------------------
(* JavaScript values *)

Truthy(v) == v # NULL /\ v # 0

Max(a, b) == IF a >= b THEN a ELSE b

(* The model's strings are over the letters a, b, n, p, their capitals and the blank *)
lowerOf(c) == IF c = "A" THEN "a" ELSE IF c = "B" THEN "b" ELSE IF c = "N" THEN "n" ELSE IF c = "P" THEN "p" ELSE c

toLowerCase(s) == [i \in 1..Len(s) |-> lowerOf(s[i])]

RECURSIVE trimStart(_)
trimStart(s) == IF Len(s) > 0 /\ Head(s) = " " THEN trimStart(Tail(s)) ELSE s

RECURSIVE trimEnd(_)
trimEnd(s) == IF Len(s) > 0 /\ s[Len(s)] = " " THEN trimEnd(SubSeq(s, 1, Len(s) - 1)) ELSE s

trim(s) == trimEnd(trimStart(s))

includes(s, sub) == \E i \in 1..(Len(s) + 1) : i + Len(sub) - 1 <= Len(s) /\ SubSeq(s, i, i + Len(sub) - 1) = sub

RECURSIVE join(_, _)
join(strs, sep) ==
    IF Len(strs) = 0 THEN <<>>
    ELSE IF Len(strs) = 1 THEN strs[1]
    ELSE strs[1] \o sep \o join(Tail(strs), sep)

(* tempDiv.innerHTML = notes; tempDiv.textContent: notes is a sequence of
   chunks, markup or text; the text content is the text chunks, concatenated. *)
RECURSIVE textContent(_)
textContent(notes) ==
    IF Len(notes) = 0 THEN <<>>
    ELSE (IF Head(notes).markup THEN <<>> ELSE Head(notes).text) \o textContent(Tail(notes))

----------------------------------------------------------------------------
(* Maps keyed by id *)

IdsOf(ns) == {ns[i].id : i \in DOMAIN ns}

(* new Map(ns.map(n => [n.id, n])): the last entry of an id wins *)
MapById(ns) ==
    [id \in IdsOf(ns) |->
        ns[CHOOSE i \in DOMAIN ns : ns[i].id = id /\ \A j \in DOMAIN ns : ns[j].id = id => j <= i]]

Put(m, k, v) == [x \in DOMAIN m \cup {k} |-> IF x = k THEN v ELSE m[x]]

EmptyMap == [x \in {} |-> 0]

----------------------------------------------------------------------------
(* The shape of a node *)

Node(id, parentId, text, notes, tags, subtasks, ownerIds, priority, meetingIds, links, x, y2, height) ==
    [id |-> id, parentId |-> parentId, text |-> text, notes |-> notes, tags |-> tags,
     subtasks |-> subtasks, ownerIds |-> ownerIds, priority |-> priority,
     meetingIds |-> meetingIds, links |-> links, x |-> x, y2 |-> y2,
     width |-> NODE_WIDTH, height |-> height]

(* A node with no content, as handleAddNode and the initial state build it *)
BlankNode(id, parentId, text, x, y2) ==
    Node(id, parentId, text, <<>>, <<>>, <<>>, <<>>, 0, <<>>, <<>>, x, y2, BASE_NODE_HEIGHT)

----------------------------------------------------------------------------
(* layoutTree *)

Result(ok, map) == [ok |-> ok, map |-> map]

(* childrenMap: every id of the input has a list; a node is pushed on the list
   of its parentId when that is not null and is an id of the input. *)
childrenMap(ns) ==
    [id \in IdsOf(ns) |-> SelectSeq(ns, LAMBDA n : n.parentId # NULL /\ n.parentId = id)]

RECURSIVE sumSubtreeHeights(_, _)
sumSubtreeHeights(children, sh) ==
    IF Len(children) = 0 THEN 0
    ELSE sh[Head(children).id] + sumSubtreeHeights(Tail(children), sh)

RECURSIVE calculateHeights(_, _, _, _)
RECURSIVE calculateHeightsEach(_, _, _, _)

(* list.forEach(calculateHeights), the map of subtree heights threaded through *)
calculateHeightsEach(cm, list, acc, fuel) ==
    IF Len(list) = 0 \/ ~acc.ok THEN acc
    ELSE calculateHeightsEach(cm, Tail(list), calculateHeights(cm, Head(list), acc.map, fuel), fuel)

(* Mutant: the gaps between the children are not counted *)
nodeSubtreeHeight_NoGaps(node, children, sh) == Max(sumSubtreeHeights(children, sh), node.height)

nodeSubtreeHeight(node, children, sh) ==
    LET childrenHeight == sumSubtreeHeights(children, sh)
        totalHeight == childrenHeight + (Len(children) - 1) * V_SPACE
    IN Max(totalHeight, node.height)

calculateHeights(cm, node, sh, fuel) ==
    IF fuel = 0 THEN Result(FALSE, sh)
    ELSE LET children == cm[node.id] IN
         IF Len(children) = 0 THEN Result(TRUE, Put(sh, node.id, node.height))
         ELSE LET r == calculateHeightsEach(cm, children, Result(TRUE, sh), fuel - 1) IN
              IF ~r.ok THEN r
              ELSE Result(TRUE, Put(r.map, node.id, nodeSubtreeHeight(node, children, r.map)))

(* Mutant: the next sibling is placed below the child's own card only *)
nextChildY_OwnHeight(currentY, child, sh) == currentY + child.height + V_SPACE

(* currentY += subtreeHeights.get(child.id)! + V_SPACE *)
nextChildY(currentY, child, sh) == currentY + sh[child.id] + V_SPACE

(* Mutant: the node is put at the top of its band *)
nodePosition_BandTop(node, x, y, myHeight) == [x |-> x, y2 |-> 2 * y]

(* positionedNodes.set(node.id, { x, y: y + (myHeight - node.height) / 2 }) *)
nodePosition(node, x, y, myHeight) == [x |-> x, y2 |-> 2 * y + (myHeight - node.height)]

RECURSIVE setPositions(_, _, _, _, _, _, _)
RECURSIVE setPositionsChildren(_, _, _, _, _, _, _)

(* for (const child of children) { setPositions(child, x, currentY); currentY += ... } *)
setPositionsChildren(cm, sh, children, x, currentY, acc, fuel) ==
    IF Len(children) = 0 \/ ~acc.ok THEN acc
    ELSE setPositionsChildren(cm, sh, Tail(children), x, nextChildY(currentY, Head(children), sh),
                              setPositions(cm, sh, Head(children), x, currentY, acc.map, fuel), fuel)

setPositions(cm, sh, node, x, y, pos, fuel) ==
    IF fuel = 0 THEN Result(FALSE, pos)
    ELSE LET myHeight == sh[node.id]
             children == cm[node.id]
         IN setPositionsChildren(cm, sh, children, x + node.width + H_SPACE, y,
                                 Result(TRUE, Put(pos, node.id, nodePosition(node, x, y, myHeight))),
                                 fuel - 1)

(* Mutant: the traversal starts from every node *)
rootsOf_All(ns) == ns

(* const roots = nodes.filter(n => n.parentId === null) *)
rootsOf(ns) == SelectSeq(ns, LAMBDA n : n.parentId = NULL)

(* Mutant: the next tree is placed below the root's own card only *)
nextRootY_OwnHeight(currentRootY, root, sh) == currentRootY + root.height + V_SPACE * 2

(* Mutant: the trees are one gap apart *)
nextRootY_OneGap(currentRootY, root, sh) == currentRootY + sh[root.id] + V_SPACE

(* currentRootY += subtreeHeights.get(root.id)! + V_SPACE * 2 *)
nextRootY(currentRootY, root, sh) == currentRootY + sh[root.id] + V_SPACE * 2

RECURSIVE setRootPositions(_, _, _, _, _, _)
setRootPositions(cm, sh, roots, currentRootY, acc, fuel) ==
    IF Len(roots) = 0 \/ ~acc.ok THEN acc
    ELSE setRootPositions(cm, sh, Tail(roots), nextRootY(currentRootY, Head(roots), sh),
                          setPositions(cm, sh, Head(roots), ROOT_X, currentRootY, acc.map, fuel), fuel)

(* The map subtreeHeights after roots.forEach(calculateHeights) *)
subtreeHeights(ns) == calculateHeightsEach(childrenMap(ns), rootsOf(ns), Result(TRUE, EmptyMap), Len(ns))

(* The map positionedNodes after the loop over the roots *)
positionedNodes(ns) ==
    LET h == subtreeHeights(ns) IN
    IF ~h.ok THEN Result(FALSE, EmptyMap)
    ELSE setRootPositions(childrenMap(ns), h.map, rootsOf(ns), ROOT_Y, Result(TRUE, EmptyMap), Len(ns))

(* Mutant: the result lists the roots before the other nodes *)
layoutTree_RootsFirst(ns) ==
    IF Len(ns) = 0 THEN [ok |-> TRUE, nodes |-> <<>>]
    ELSE LET p == positionedNodes(ns) IN
         IF ~p.ok THEN [ok |-> FALSE, nodes |-> <<>>]
         ELSE LET placed == [i \in 1..Len(ns) |->
                               IF ns[i].id \in DOMAIN p.map
                               THEN [ns[i] EXCEPT !.x = p.map[ns[i].id].x, !.y2 = p.map[ns[i].id].y2]
                               ELSE ns[i]]
              IN [ok |-> TRUE, nodes |-> rootsOf(placed) \o SelectSeq(placed, LAMBDA n : n.parentId # NULL)]

(* layoutTree's result: ok = FALSE when the recursion never returns, else the
   input with x and y overwritten for the nodes that were positioned. *)
layoutTree(ns) ==
    IF Len(ns) = 0 THEN [ok |-> TRUE, nodes |-> <<>>]
    ELSE LET p == positionedNodes(ns) IN
         IF ~p.ok THEN [ok |-> FALSE, nodes |-> <<>>]
         ELSE [ok |-> TRUE,
               nodes |-> [i \in 1..Len(ns) |->
                            IF ns[i].id \in DOMAIN p.map
                            THEN [ns[i] EXCEPT !.x = p.map[ns[i].id].x, !.y2 = p.map[ns[i].id].y2]
                            ELSE ns[i]]]

----------------------------------------------------------------------------
(* displayedNodes: height derivation, reachability filter, layout *)

(* Mutant: no row is added for the links *)
calculateNodeHeight_NoLinkRow(node) ==
    BASE_NODE_HEIGHT + Len(node.subtasks) * SUBTASK_HEIGHT + METADATA_ROW_HEIGHT

calculateNodeHeight(node) ==
    BASE_NODE_HEIGHT + Len(node.subtasks) * SUBTASK_HEIGHT + METADATA_ROW_HEIGHT
        + (IF Len(node.links) > 0 THEN LINK_ROW_EXTRA_HEIGHT ELSE 0)

(* nodes.map(n => ({...n, height: calculateNodeHeight(n)})) *)
nodesWithHeights(ns) == [i \in 1..Len(ns) |-> [ns[i] EXCEPT !.height = calculateNodeHeight(ns[i])]]

(* Mutant: the query is not trimmed *)
activeFilter_NoTrim(query) == toLowerCase(query)

(* searchQuery.trim().toLowerCase() *)
activeFilter(query) == toLowerCase(trim(query))

isPriorityFilterActive(pf) == pf # NULL /\ pf > 0

(* current.parentId ? nodesById.get(current.parentId) : undefined, as the id of
   the node found, NULL for undefined *)
parentLookup(byId, current) ==
    IF Truthy(byId[current].parentId) /\ byId[current].parentId \in DOMAIN byId
    THEN byId[current].parentId
    ELSE NULL

(* The while loop of addNodeAndAncestors from the node `current` (NULL: undefined) *)
RECURSIVE addNodeAndAncestorsLoop(_, _, _)
addNodeAndAncestorsLoop(byId, current, visibleIds) ==
    IF current = NULL THEN visibleIds
    ELSE IF current \in visibleIds THEN visibleIds
    ELSE addNodeAndAncestorsLoop(byId, parentLookup(byId, current), visibleIds \cup {current})

(* Mutant: the matching node is added without its ancestors *)
addNodeAndAncestors_NodeOnly(byId, nodeId, visibleIds) ==
    IF nodeId \in DOMAIN byId THEN visibleIds \cup {nodeId} ELSE visibleIds

addNodeAndAncestors(byId, nodeId, visibleIds) ==
    addNodeAndAncestorsLoop(byId, IF nodeId \in DOMAIN byId THEN nodeId ELSE NULL, visibleIds)

(* nodesWithHeights.forEach(node => { if (isMatch(node)) addNodeAndAncestors(node.id) });
   isMatch[i] is the value of the branch's match test on list[i] *)
RECURSIVE addMatches(_, _, _, _)
addMatches(byId, list, isMatch, visibleIds) ==
    IF Len(list) = 0 THEN visibleIds
    ELSE addMatches(byId, Tail(list), Tail(isMatch),
                    IF Head(isMatch) THEN addNodeAndAncestors(byId, Head(list).id, visibleIds)
                    ELSE visibleIds)

(* The while loop of getAncestors: it has no visited test, so it spins on a cycle *)
RECURSIVE getAncestorsLoop(_, _, _, _)
getAncestorsLoop(byId, current, visibleIds, fuel) ==
    IF current = NULL THEN Result(TRUE, visibleIds)
    ELSE IF fuel = 0 THEN Result(FALSE, visibleIds)
    ELSE getAncestorsLoop(byId, parentLookup(byId, current), visibleIds \cup {current}, fuel - 1)

(* Mutant: the focus filter adds no ancestor *)
getAncestors_None(byId, nodeId, visibleIds) == Result(TRUE, visibleIds)

getAncestors(byId, nodeId, visibleIds) ==
    getAncestorsLoop(byId, IF nodeId \in DOMAIN byId THEN nodeId ELSE NULL, visibleIds, Cardinality(DOMAIN byId))

(* nodesWithHeights.filter(n => n.parentId === nodeId) *)
childrenOfId(ns, nodeId) == SelectSeq(ns, LAMBDA n : n.parentId = nodeId)

(* Mutant: only the children of the focus node are added, not their subtrees *)
getDescendants_ChildrenOnly(ns, nodeId, visibleIds, fuel) ==
    Result(TRUE, visibleIds \cup {nodeId} \cup {n.id : n \in {ns[i] : i \in {j \in DOMAIN ns : ns[j].parentId = nodeId}}})

RECURSIVE getDescendants(_, _, _, _)
RECURSIVE getDescendantsEach(_, _, _, _)

getDescendantsEach(ns, children, acc, fuel) ==
    IF Len(children) = 0 \/ ~acc.ok THEN acc
    ELSE getDescendantsEach(ns, Tail(children), getDescendants(ns, Head(children).id, acc.map, fuel), fuel)

getDescendants(ns, nodeId, visibleIds, fuel) ==
    IF fuel = 0 THEN Result(FALSE, visibleIds)
    ELSE getDescendantsEach(ns, childrenOfId(ns, nodeId), Result(TRUE, visibleIds \cup {nodeId}), fuel - 1)

(* ownersById.get(id)?.name || '' for each owner id of the node, joined by ' ' *)
ownerNames(node, ownersById) ==
    toLowerCase(join([i \in 1..Len(node.ownerIds) |->
                         IF node.ownerIds[i] \in DOMAIN ownersById
                         THEN ownersById[node.ownerIds[i]].name ELSE <<>>], <<" ">>))

(* isMatch of the text filter *)
isTextMatch(node, ownersById, filter) ==
    \/ includes(toLowerCase(node.text), filter)
    \/ includes(toLowerCase(textContent(node.notes)), filter)
    \/ \E i \in 1..Len(node.tags) : includes(toLowerCase(node.tags[i]), filter)
    \/ \E i \in 1..Len(node.subtasks) : includes(toLowerCase(node.subtasks[i]), filter)
    \/ includes(ownerNames(node, ownersById), filter)

isMeetingMatch(node, meetingId) == \E i \in 1..Len(node.meetingIds) : node.meetingIds[i] = meetingId

isPriorityMatch(node, pf) == node.priority = pf

(* The set visibleIds a filter leaves; ok = FALSE when a walk never returns *)
visibleIdsOf(nwh, own, query, pf, nodeFilter, meetingFilter) ==
    LET byId == MapById(nwh) IN
    IF Truthy(meetingFilter)
    THEN Result(TRUE, addMatches(byId, nwh, [i \in 1..Len(nwh) |-> isMeetingMatch(nwh[i], meetingFilter)], {}))
    ELSE IF Truthy(nodeFilter)
    THEN LET a == getAncestors(byId, nodeFilter, {}) IN
         IF ~a.ok THEN a ELSE getDescendants(nwh, nodeFilter, a.map, Len(nwh) + 1)
    ELSE IF isPriorityFilterActive(pf)
    THEN Result(TRUE, addMatches(byId, nwh, [i \in 1..Len(nwh) |-> isPriorityMatch(nwh[i], pf)], {}))
    ELSE IF Len(activeFilter(query)) > 0
    THEN Result(TRUE, addMatches(byId, nwh,
                                 [i \in 1..Len(nwh) |-> isTextMatch(nwh[i], MapById(own), activeFilter(query))], {}))
    ELSE Result(TRUE, {})

(* if (filterByMeetingId || filterByNodeId || isPriorityFilterActive || activeFilter) *)
anyFilterActive(query, pf, nodeFilter, meetingFilter) ==
    Truthy(meetingFilter) \/ Truthy(nodeFilter) \/ isPriorityFilterActive(pf) \/ Len(activeFilter(query)) > 0

(* Mutant: the collection is not restricted to the visible ids *)
keepVisible_All(nwh, visibleIds) == nwh

(* nodesWithHeights.filter(n => visibleIds.has(n.id)) *)
keepVisible(nwh, visibleIds) == SelectSeq(nwh, LAMBDA n : n.id \in visibleIds)

(* visibleNodes, the argument of layoutTree: [ok, nodes] *)
visibleNodesOf(ns, own, query, pf, nodeFilter, meetingFilter) ==
    LET nwh == nodesWithHeights(ns) IN
    IF anyFilterActive(query, pf, nodeFilter, meetingFilter)
    THEN LET v == visibleIdsOf(nwh, own, query, pf, nodeFilter, meetingFilter) IN
         IF ~v.ok THEN [ok |-> FALSE, nodes |-> <<>>]
         ELSE [ok |-> TRUE, nodes |-> keepVisible(nwh, v.map)]
    ELSE [ok |-> TRUE, nodes |-> nwh]

(* The value of the displayedNodes memo for a state *)
displayedNodesOf(ns, own, query, pf, nodeFilter, meetingFilter) ==
    LET v == visibleNodesOf(ns, own, query, pf, nodeFilter, meetingFilter) IN
    IF ~v.ok THEN v ELSE layoutTree(v.nodes)

----------------------------------------------------------------------------
(* Vocabulary of the claims: the parentId edges of a collection *)

(* The positions of the nodes that the parentId of a node of S names *)
ParentsOf(ns, S) == {j \in DOMAIN ns : \E i \in S : ns[i].parentId # NULL /\ ns[j].id = ns[i].parentId}

ChildrenOf(ns, S) == {j \in DOMAIN ns : \E i \in S : ns[j].parentId # NULL /\ ns[j].parentId = ns[i].id}

RECURSIVE UpClosure(_, _, _)
UpClosure(ns, S, k) == IF k = 0 THEN S ELSE UpClosure(ns, S \cup ParentsOf(ns, S), k - 1)

RECURSIVE DownClosure(_, _, _)
DownClosure(ns, S, k) == IF k = 0 THEN S ELSE DownClosure(ns, S \cup ChildrenOf(ns, S), k - 1)

(* Proper ancestors and proper descendants of the node at position i *)
AncestorsOf(ns, i) == UpClosure(ns, ParentsOf(ns, {i}), Len(ns))

DescendantsOf(ns, i) == DownClosure(ns, ChildrenOf(ns, {i}), Len(ns))

UniqueIds(ns) == \A i, j \in DOMAIN ns : ns[i].id = ns[j].id => i = j

Acyclic(ns) == \A i \in DOMAIN ns : i \notin AncestorsOf(ns, i)

Dangling(ns, i) == ns[i].parentId # NULL /\ ns[i].parentId \notin IdsOf(ns)

(* A well-formed forest: unique ids, every parentId null or present, no cycle *)
WellFormed(ns) == UniqueIds(ns) /\ Acyclic(ns) /\ \A i \in DOMAIN ns : ~Dangling(ns, i)

----------------------------------------------------------------------------
(* Initial values shared by the specifications *)

Op(op, arg, result) == [op |-> op, arg |-> arg, result |-> result]

OtherHandler == Op("handler", NULL, "")

NoFilters ==
    /\ searchQuery = <<>>
    /\ priorityFilter = NULL
    /\ filterByNodeId = NULL
    /\ filterByMeetingId = NULL

Idle ==
    /\ owners = <<>>
    /\ meetings = <<>>
    /\ reparentingNodeId = NULL
    /\ now = 1
    /\ hung = FALSE
    /\ displayedNodes = [ok |-> TRUE, nodes |-> <<>>]
    /\ lastOp = Op("init", NULL, "")

----------------------------------------------------------------------------
(* The App component: state after construction *)

(* useState<Node[]>([{ id: 1, text: 'Proyecto Principal', x: 50, y: 50, ... }]) *)
InitialNodes == <<BlankNode(1, NULL, <<"P">>, 50, 100)>>

(* Mutant: the focus filter is not among the dependencies of the memo *)
Deps_NoFocus(ns, own, query, pf, nodeFilter, meetingFilter) == <<ns, own, query, pf, meetingFilter>>

Deps(ns, own, query, pf, nodeFilter, meetingFilter) == <<ns, own, query, pf, nodeFilter, meetingFilter>>

(* The render that follows a handler: the displayedNodes memo is recomputed
   when one of its dependencies changed; a recomputation that never returns
   leaves the page dead. *)
Render ==
    /\ displayedNodes' =
          IF Deps(nodes', owners', searchQuery', priorityFilter', filterByNodeId', filterByMeetingId')
               = Deps(nodes, owners, searchQuery, priorityFilter, filterByNodeId, filterByMeetingId)
          THEN displayedNodes
          ELSE displayedNodesOf(nodes', owners', searchQuery', priorityFilter', filterByNodeId', filterByMeetingId')
    /\ hung' = ~displayedNodes'.ok

Init ==
    /\ nodes = InitialNodes
    /\ owners = <<>>
    /\ meetings = <<>>
    /\ NoFilters
    /\ reparentingNodeId = NULL
    /\ now = 2
    /\ hung = FALSE
    /\ displayedNodes = displayedNodesOf(InitialNodes, <<>>, <<>>, NULL, NULL, NULL)
    /\ lastOp = Op("init", NULL, "")

(* The ids of the node cards on screen *)
CardIds == IdsOf(displayedNodes.nodes)

----------------------------------------------------------------------------
(* The clock: Date.now() does not decrease *)

Tick ==
    /\ ~hung
    /\ now < MaxClock
    /\ now' = now + 1
    /\ UNCHANGED <<nodes, owners, meetings, searchQuery, priorityFilter, filterByNodeId,
                   filterByMeetingId, reparentingNodeId, displayedNodes, hung, lastOp>>

----------------------------------------------------------------------------
(* handleAddNode *)

(* { id: Date.now(), text: "Nueva Tarea", x: 0, y: 0, width: 220, height: BASE_NODE_HEIGHT, parentId, ... } *)
newNode(parentId) == BlankNode(now, parentId, <<"N">>, 0, 0)

handleAddNode(parentId) ==
    /\ ~hung
    /\ nodes' = Append(nodes, newNode(parentId))
    /\ lastOp' = OtherHandler
    /\ UNCHANGED <<owners, meetings, searchQuery, priorityFilter, filterByNodeId,
                   filterByMeetingId, reparentingNodeId, now>>
    /\ Render

----------------------------------------------------------------------------
(* Reparenting *)

(* setReparentingNodeId(prev => (prev === nodeId ? null : nodeId)) *)
handleSetReparentingMode(nodeId) ==
    /\ ~hung
    /\ reparentingNodeId' = IF reparentingNodeId = nodeId THEN NULL ELSE nodeId
    /\ lastOp' = OtherHandler
    /\ UNCHANGED <<nodes, owners, meetings, searchQuery, priorityFilter, filterByNodeId,
                   filterByMeetingId, now>>
    /\ Render

(* if (reparentingNodeId) { setReparentingNodeId(null); return; } and else the
   start of a pan of the map, which touches none of the variables *)
handleMapMouseDown ==
    /\ ~hung
    /\ reparentingNodeId' = NULL
    /\ lastOp' = OtherHandler
    /\ UNCHANGED <<nodes, owners, meetings, searchQuery, priorityFilter, filterByNodeId,
                   filterByMeetingId, now>>
    /\ Render

(* The window's keydown listener: if (e.key === 'Escape') setReparentingNodeId(null) *)
handleKeyDown(key) ==
    /\ ~hung
    /\ reparentingNodeId' = IF key = "Escape" THEN NULL ELSE reparentingNodeId
    /\ lastOp' = OtherHandler
    /\ UNCHANGED <<nodes, owners, meetings, searchQuery, priorityFilter, filterByNodeId,
                   filterByMeetingId, now>>
    /\ Render

(* The while loop of the cycle check, from the node `current` (NULL: undefined):
   "cycle" when it meets the node being moved, "none" when it runs off the
   chain, "spin" when it never ends *)
RECURSIVE cycleCheckLoop(_, _, _, _)
cycleCheckLoop(byId, current, moved, fuel) ==
    IF current = NULL THEN "none"
    ELSE IF current = moved THEN "cycle"
    ELSE IF fuel = 0 THEN "spin"
    ELSE cycleCheckLoop(byId, parentLookup(byId, current), moved, fuel - 1)

cycleCheck(ns, clickedNodeId, moved) ==
    LET byId == MapById(ns) IN
    cycleCheckLoop(byId, IF clickedNodeId \in DOMAIN byId THEN clickedNodeId ELSE NULL, moved, Cardinality(DOMAIN byId))

(* Mutant: the moved node goes to the end of the collection *)
reparent_MovesLast(ns, moved, clickedNodeId) ==
    SelectSeq(ns, LAMBDA n : n.id # moved)
        \o [i \in 1..Len(SelectSeq(ns, LAMBDA n : n.id = moved)) |->
               [SelectSeq(ns, LAMBDA n : n.id = moved)[i] EXCEPT !.parentId = clickedNodeId]]

(* prev.map(n => n.id === reparentingNodeId ? { ...n, parentId: clickedNodeId } : n) *)
reparent(ns, moved, clickedNodeId) ==
    [i \in 1..Len(ns) |-> IF ns[i].id = moved THEN [ns[i] EXCEPT !.parentId = clickedNodeId] ELSE ns[i]]

(* Mutant: a rejected reparent leaves the mode on *)
handleNodeClick_RejectKeepsMode(clickedNodeId) ==
    /\ ~hung
    /\ UNCHANGED <<owners, meetings, searchQuery, priorityFilter, filterByNodeId, filterByMeetingId, now>>
    /\ IF ~Truthy(reparentingNodeId)
       THEN /\ lastOp' = Op("handleNodeClick", clickedNodeId, "ignored")
            /\ UNCHANGED <<nodes, reparentingNodeId, displayedNodes, hung>>
       ELSE IF reparentingNodeId = clickedNodeId
       THEN /\ reparentingNodeId' = NULL
            /\ lastOp' = Op("handleNodeClick", clickedNodeId, "cancelled")
            /\ UNCHANGED <<nodes, displayedNodes, hung>>
       ELSE LET check == cycleCheck(nodes, clickedNodeId, reparentingNodeId) IN
            IF check = "spin"
            THEN /\ hung' = TRUE
                 /\ lastOp' = Op("handleNodeClick", clickedNodeId, "spin")
                 /\ UNCHANGED <<nodes, reparentingNodeId, displayedNodes>>
            ELSE IF check = "none"
            THEN /\ nodes' = reparent(nodes, reparentingNodeId, clickedNodeId)
                 /\ reparentingNodeId' = NULL
                 /\ lastOp' = Op("handleNodeClick", clickedNodeId, "accepted")
                 /\ Render
            ELSE /\ lastOp' = Op("handleNodeClick", clickedNodeId, "rejected")
                 /\ UNCHANGED <<nodes, reparentingNodeId, displayedNodes, hung>>

handleNodeClick(clickedNodeId) ==
    /\ ~hung
    /\ UNCHANGED <<owners, meetings, searchQuery, priorityFilter, filterByNodeId, filterByMeetingId, now>>
    /\ IF ~Truthy(reparentingNodeId)
       THEN /\ lastOp' = Op("handleNodeClick", clickedNodeId, "ignored")
            /\ UNCHANGED <<nodes, reparentingNodeId, displayedNodes, hung>>
       ELSE IF reparentingNodeId = clickedNodeId
       THEN /\ reparentingNodeId' = NULL
            /\ lastOp' = Op("handleNodeClick", clickedNodeId, "cancelled")
            /\ UNCHANGED <<nodes, displayedNodes, hung>>
       ELSE LET check == cycleCheck(nodes, clickedNodeId, reparentingNodeId) IN
            IF check = "spin"
            THEN /\ hung' = TRUE
                 /\ lastOp' = Op("handleNodeClick", clickedNodeId, "spin")
                 /\ UNCHANGED <<nodes, reparentingNodeId, displayedNodes>>
            ELSE IF check = "none"
            THEN /\ nodes' = reparent(nodes, reparentingNodeId, clickedNodeId)
                 /\ reparentingNodeId' = NULL
                 /\ lastOp' = Op("handleNodeClick", clickedNodeId, "accepted")
                 /\ Render
            ELSE /\ reparentingNodeId' = NULL
                 /\ lastOp' = Op("handleNodeClick", clickedNodeId, "rejected")
                 /\ UNCHANGED <<nodes, displayedNodes, hung>>

----------------------------------------------------------------------------
(* The filter handlers. What lastOp keeps of a call is chosen by the
   specification that takes the step. *)

(* The queries the filter buttons of the page pass to handleTextFilterClick,
   and the number of a query among them *)
QueryList == << <<" ">>, <<"n">> >>

QueryNo(query) == CHOOSE k \in DOMAIN QueryList : QueryList[k] = query

handleTextFilterClick(query) ==
    /\ ~hung
    /\ priorityFilter' = 0
    /\ filterByNodeId' = NULL
    /\ filterByMeetingId' = NULL
    /\ searchQuery' = IF searchQuery = query THEN <<>> ELSE query
    /\ UNCHANGED <<nodes, owners, meetings, reparentingNodeId, now>>
    /\ Render

(* Mutant: the priority buttons leave the focus filter in place *)
handlePriorityFilterClick_KeepsFocus(priority) ==
    /\ ~hung
    /\ searchQuery' = <<>>
    /\ filterByMeetingId' = NULL
    /\ priorityFilter' = IF priorityFilter = priority THEN 0 ELSE priority
    /\ UNCHANGED <<nodes, owners, meetings, reparentingNodeId, now, filterByNodeId>>
    /\ Render

handlePriorityFilterClick(priority) ==
    /\ ~hung
    /\ searchQuery' = <<>>
    /\ filterByNodeId' = NULL
    /\ filterByMeetingId' = NULL
    /\ priorityFilter' = IF priorityFilter = priority THEN 0 ELSE priority
    /\ UNCHANGED <<nodes, owners, meetings, reparentingNodeId, now>>
    /\ Render

handleSetNodeFilter(nodeId) ==
    /\ ~hung
    /\ searchQuery' = <<>>
    /\ priorityFilter' = 0
    /\ filterByMeetingId' = NULL
    /\ filterByNodeId' = nodeId
    /\ UNCHANGED <<nodes, owners, meetings, reparentingNodeId, now>>
    /\ Render

(* Mutant: the meeting button does not toggle *)
handleFilterByMeeting_NoToggle(meetingId) ==
    /\ ~hung
    /\ searchQuery' = <<>>
    /\ priorityFilter' = 0
    /\ filterByNodeId' = NULL
    /\ filterByMeetingId' = meetingId
    /\ UNCHANGED <<nodes, owners, meetings, reparentingNodeId, now>>
    /\ Render

handleFilterByMeeting(meetingId) ==
    /\ ~hung
    /\ searchQuery' = <<>>
    /\ priorityFilter' = 0
    /\ filterByNodeId' = NULL
    /\ filterByMeetingId' = IF filterByMeetingId = meetingId THEN NULL ELSE meetingId
    /\ UNCHANGED <<nodes, owners, meetings, reparentingNodeId, now>>
    /\ Render

----------------------------------------------------------------------------
(* handleImportFile: the FileReader's onload callback on the text of the file *)

(* A parsed file: whether JSON.parse returns, and for each of data.nodes,
   data.owners and data.meetings whether it is an array, and the array. An
   element of data.nodes has an id and a parentId, either of which may be
   missing (UNDEFINED). An element of data.meetings may be null. *)
File(parses, hasNodes, fileNodes, hasOwners, fileOwners, hasMeetings, fileMeetings) ==
    [parses |-> parses, hasNodes |-> hasNodes, nodes |-> fileNodes, hasOwners |-> hasOwners,
     owners |-> fileOwners, hasMeetings |-> hasMeetings, meetings |-> fileMeetings]

RawNode(id, parentId) == [id |-> id, parentId |-> parentId]

(* An element of data.meetings: null, or a value with an id that may be missing *)
RawMeeting(isNull, id) == [isNull |-> isNull, id |-> id]

(* value || fallback *)
OrElse(value, fallback) == IF value = UNDEFINED \/ ~Truthy(value) THEN fallback ELSE value

(* The node sanitizedNodes holds for element `index` (from 0) of data.nodes *)
sanitizeNode(raw, index) ==
    BlankNode(OrElse(raw.id, now + index),
              IF raw.parentId # UNDEFINED THEN raw.parentId ELSE NULL,
              <<"N">>, 0, 0)

sanitizedNodes(fileNodes) == [i \in 1..Len(fileNodes) |-> sanitizeNode(fileNodes[i], i - 1)]

(* { id: m.id || Date.now(), ... } for each element of data.meetings *)
sanitizedMeetings(fileMeetings) == [i \in 1..Len(fileMeetings) |-> [id |-> OrElse(fileMeetings[i].id, now)]]

(* data.nodes && Array.isArray(data.nodes) && data.owners && Array.isArray(data.owners) *)
validFormat(file) == file.hasNodes /\ file.hasOwners

(* m.id of a null element of data.meetings throws a TypeError *)
meetingsThrow(fileMeetings) == \E i \in 1..Len(fileMeetings) : fileMeetings[i].isNull

(* setNodes and setOwners are called before data.meetings is read: when
   reading it throws, the catch block alerts and the two updates stay queued. *)
handleImportFile(file) ==
    /\ ~hung
    /\ UNCHANGED <<searchQuery, priorityFilter, filterByNodeId, filterByMeetingId, reparentingNodeId, now>>
    /\ IF file.parses /\ validFormat(file)
       THEN /\ nodes' = sanitizedNodes(file.nodes)
            /\ owners' = file.owners
            /\ IF file.hasMeetings /\ meetingsThrow(file.meetings)
               THEN /\ meetings' = meetings
                    /\ lastOp' = Op("handleImportFile", NULL, "error")
               ELSE /\ meetings' = IF file.hasMeetings THEN sanitizedMeetings(file.meetings) ELSE <<>>
                    /\ lastOp' = Op("handleImportFile", NULL, "imported")
            /\ Render
       ELSE /\ lastOp' = Op("handleImportFile", NULL, "alert")
            /\ UNCHANGED <<nodes, owners, meetings, displayedNodes, hung>>

(* The files of the model: one that is not JSON, one without an owners array,
   and collections that are a forest (with a meeting), a root beside a cycle,
   a node whose parent is not in the file (with a meeting without id),
   elements without ids, and the forest with a meeting list that holds null. *)
ImportFiles ==
    { File(FALSE, FALSE, <<>>, FALSE, <<>>, FALSE, <<>>),
      File(TRUE, TRUE, <<RawNode(11, NULL)>>, FALSE, <<>>, FALSE, <<>>),
      File(TRUE, TRUE, <<RawNode(11, NULL), RawNode(12, 11)>>, TRUE, <<>>, TRUE, <<RawMeeting(FALSE, 21)>>),
      File(TRUE, TRUE, <<RawNode(11, 12), RawNode(12, 11), RawNode(13, NULL)>>, TRUE, <<>>, FALSE, <<>>),
      File(TRUE, TRUE, <<RawNode(12, 1)>>, TRUE, <<>>, TRUE, <<RawMeeting(FALSE, UNDEFINED)>>),
      File(TRUE, TRUE, <<RawNode(UNDEFINED, UNDEFINED), RawNode(0, UNDEFINED)>>, TRUE, <<>>, FALSE, <<>>),
      File(TRUE, TRUE, <<RawNode(11, NULL), RawNode(12, 11)>>, TRUE, <<>>, TRUE, <<RawMeeting(TRUE, UNDEFINED)>>) }

Queries == {QueryList[k] : k \in DOMAIN QueryList}

----------------------------------------------------------------------------
(* SpecEdit: the node collection under handleAddNode and reparenting, from the
   single initial root *)

NextEdit ==
    \/ Tick
    \/ \E parentId \in {NULL} \cup CardIds : Len(nodes) < MaxEditNodes /\ handleAddNode(parentId)
    \/ \E nodeId \in CardIds : handleSetReparentingMode(nodeId)
    \/ \E clickedNodeId \in CardIds : handleNodeClick(clickedNodeId)
    \/ handleMapMouseDown
    \/ \E key \in {"Escape", "a"} : handleKeyDown(key)

SpecEdit == Init /\ [][NextEdit]_vars

----------------------------------------------------------------------------
(* Spec: the application *)

Next ==
    \/ Tick
    \/ \E parentId \in {NULL} \cup CardIds : Len(nodes) < MaxNodes /\ handleAddNode(parentId)
    \/ \E nodeId \in CardIds : handleSetReparentingMode(nodeId)
    \/ \E clickedNodeId \in CardIds : handleNodeClick(clickedNodeId)
    \/ handleMapMouseDown
    \/ \E key \in {"Escape", "a"} : handleKeyDown(key)
    \/ \E query \in Queries : handleTextFilterClick(query) /\ lastOp' = OtherHandler
    \/ \E priority \in 1..3 : handlePriorityFilterClick(priority) /\ lastOp' = OtherHandler
    \/ \E nodeId \in {NULL} \cup CardIds : handleSetNodeFilter(nodeId) /\ lastOp' = OtherHandler
    \/ \E meetingId \in {NULL} \cup IdsOf(meetings) : handleFilterByMeeting(meetingId) /\ lastOp' = OtherHandler
    \/ \E file \in ImportFiles : handleImportFile(file)

Spec == Init /\ [][Next]_vars

----------------------------------------------------------------------------
(* SpecToggle: the filter buttons, each call kept in lastOp with its argument,
   and the import, which brings the meetings *)

NextToggle ==
    \/ \E query \in Queries :
          handleTextFilterClick(query) /\ lastOp' = Op("handleTextFilterClick", QueryNo(query), "")
    \/ \E priority \in 1..3 :
          handlePriorityFilterClick(priority) /\ lastOp' = Op("handlePriorityFilterClick", priority, "")
    \/ \E nodeId \in {NULL} \cup CardIds :
          handleSetNodeFilter(nodeId) /\ lastOp' = Op("handleSetNodeFilter", nodeId, "")
    \/ \E meetingId \in {NULL} \cup IdsOf(meetings) :
          handleFilterByMeeting(meetingId) /\ lastOp' = Op("handleFilterByMeeting", meetingId, "")
    \/ \E file \in ImportFiles : handleImportFile(file)

SpecToggle == Init /\ [][NextToggle]_vars

----------------------------------------------------------------------------
(* Claims about the application *)

(* C3: from the single initial root, under handleAddNode and reparent clicks,
   no node is its own ancestor along the parentId edges. *)
C3_NoNodeIsItsOwnAncestor == \A i \in DOMAIN nodes : i \notin AncestorsOf(nodes, i)

(* The positions of the nodes with the id *)
PositionsOf(ns, id) == {i \in DOMAIN ns : ns[i].id = id}

(* The node with id x is the node with id t or one of its ancestors *)
InAncestorChain(ns, x, t) ==
    \E i \in PositionsOf(ns, t) : PositionsOf(ns, x) \cap ({i} \cup AncestorsOf(ns, i)) # {}

(* A step that is handleNodeClick(t) in reparent mode *)
ReparentClick(t) ==
    /\ Truthy(reparentingNodeId)
    /\ lastOp'.op = "handleNodeClick" /\ lastOp'.arg = t
    /\ reparentingNodeId' = NULL \/ hung'

(* C4: handleNodeClick(T) with reparentingNodeId = X leaves the collection
   unchanged when X is in the ancestor chain of T, and otherwise makes T the
   parentId of X. *)
C4_ReparentRejectedOnDescendantElseApplied ==
    [][\A t \in IdsOf(nodes) :
          ReparentClick(t) =>
              IF InAncestorChain(nodes, reparentingNodeId, t)
              THEN nodes' = nodes
              ELSE nodes' = reparent(nodes, reparentingNodeId, t)]_vars

(* C5: the collection that displayedNodes is computed from is acyclic in every
   state, also after handleImportFile installed an imported list. *)
C5_AcyclicBeforeLayout == Acyclic(nodes)

FiltersActive ==
    {k \in 1..4 :
        \/ k = 1 /\ searchQuery # <<>>
        \/ k = 2 /\ priorityFilter \in 1..3
        \/ k = 3 /\ filterByNodeId # NULL
        \/ k = 4 /\ filterByMeetingId # NULL}

(* C10: at most one of the four filters is active: a non-empty query, a
   priority 1..3, a focus node, a meeting. *)
C10_AtMostOneFilterActive == Cardinality(FiltersActive) <= 1

(* C10 witness: the meeting filter alone is active, the others reset by its handler *)
C10_Witness ==
    /\ FiltersActive = {4}
    /\ priorityFilter = 0
    /\ lastOp = OtherHandler

(* The focus filter names an id that no node of the collection has *)
StaleFocus == Truthy(filterByNodeId) /\ filterByNodeId \notin IdsOf(nodes)

(* C11: with the focus filter on an id that no node of the collection has,
   displayedNodes is the empty collection. *)
C11_StaleFocusShowsNothing == (StaleFocus /\ displayedNodes.ok) => displayedNodes.nodes = <<>>

(* C12: the focus filter is null or the id of a node of the collection, and
   the meeting filter is null or the id of a meeting of the meeting list. *)
C12_FilterTargetsExist ==
    /\ filterByNodeId = NULL \/ filterByNodeId \in IdsOf(nodes)
    /\ filterByMeetingId = NULL \/ filterByMeetingId \in IdsOf(meetings)

(* C13: the ids of the nodes of the collection are pairwise distinct. *)
C13_NodeIdsDistinct == UniqueIds(nodes)

----------------------------------------------------------------------------
(* SpecLayout: layoutTree applied to every forest of at most MaxLayout nodes
   (distinct ids, every parentId null or present, no cycle) and to every
   collection of fewer nodes with distinct ids and any parentId (null, present,
   absent, on a cycle); any of the heights; every node comes in at (0, 0).
   Two more inputs have a card of height 100. *)

HeightChoices == {60, 135}

LayoutInput(n, parent, height) ==
    [i \in 1..n |-> Node(i, parent[i], <<"a">>, <<>>, <<>>, <<>>, <<>>, 0, <<>>, <<>>, 0, 0, height[i])]

(* Two inputs with a card of height 100: A(1) with children B(2) and C(3) of
   heights 60 and 100, alone and followed by a second root D(4) *)
ScenarioLayouts ==
    { LayoutInput(3, <<NULL, 1, 1>>, <<60, 60, 100>>),
      LayoutInput(4, <<NULL, 1, 1, NULL>>, <<60, 60, 100, 60>>) }

InitLayout ==
    /\ \/ \E n \in 0..MaxLayout :
            \E parent \in [1..n -> {NULL} \cup 1..(n + 1)] :
               /\ n < MaxLayout \/ WellFormed(LayoutInput(n, parent, [i \in 1..n |-> BASE_NODE_HEIGHT]))
               /\ \E height \in [1..n -> HeightChoices] : nodes = LayoutInput(n, parent, height)
       \/ nodes \in ScenarioLayouts
    /\ NoFilters
    /\ Idle

CallLayoutTree ==
    /\ lastOp.op = "init"
    /\ displayedNodes' = layoutTree(nodes)
    /\ lastOp' = Op("layoutTree", NULL, "")
    /\ UNCHANGED <<nodes, owners, meetings, searchQuery, priorityFilter, filterByNodeId,
                   filterByMeetingId, reparentingNodeId, now, hung>>

NextLayout == CallLayoutTree

SpecLayout == InitLayout /\ [][NextLayout]_vars

LaidOut == lastOp.op = "layoutTree" /\ displayedNodes.ok

(* The band a laid-out node was given, from its output position y2 and the
   subtree height sh the layout reserved for it: top and bottom in half pixels. *)
BandTop2(node, y2, sh) == y2 - (sh - node.height)

BandBottom2(node, y2, sh) == BandTop2(node, y2, sh) + 2 * sh

BandsDisjoint(i, j) ==
    LET sh == subtreeHeights(nodes).map
        out == displayedNodes.nodes
        topI == BandTop2(nodes[i], out[i].y2, sh[nodes[i].id])
        topJ == BandTop2(nodes[j], out[j].y2, sh[nodes[j].id])
    IN \/ topI + 2 * sh[nodes[i].id] <= topJ
       \/ topJ + 2 * sh[nodes[j].id] <= topI

Siblings(ns, i, j) == i # j /\ ns[i].parentId # NULL /\ ns[i].parentId = ns[j].parentId

(* C1: in every layout of a well-formed forest, the vertical bands
   [bandTop, bandTop + subtreeHeight) of two distinct siblings under the same
   parent do not intersect. *)
C1_SiblingBandsDisjoint ==
    (LaidOut /\ WellFormed(nodes)) =>
        \A i, j \in DOMAIN nodes : Siblings(nodes, i, j) => BandsDisjoint(i, j)

(* C1 witness: a laid-out forest where a node has two children and the first
   of them has a child of its own that makes its band taller than itself. *)
C1_Witness ==
    /\ LaidOut /\ WellFormed(nodes)
    /\ \E i, j \in DOMAIN nodes :
         /\ Siblings(nodes, i, j) /\ i < j
         /\ subtreeHeights(nodes).map[nodes[i].id] > nodes[i].height
         /\ BandsDisjoint(i, j)

(* The input with every parentId that names no node of it replaced by null *)
DanglingAsRoots(ns) == [i \in DOMAIN ns |-> IF Dangling(ns, i) THEN [ns[i] EXCEPT !.parentId = NULL] ELSE ns[i]]

(* C2: a node whose parentId is not null and names no node of the input is
   laid out as a root: x = 50 and the y of a root at its place among the roots. *)
C2_DanglingParentLaidOutAsRoot ==
    LaidOut =>
        \A i \in DOMAIN nodes :
            Dangling(nodes, i) =>
                /\ displayedNodes.nodes[i].x = ROOT_X
                /\ displayedNodes.nodes[i].y2 = layoutTree(DanglingAsRoots(nodes)).nodes[i].y2

(* The sum of the subtree heights sh of the nodes at the positions S *)
RECURSIVE SumOver(_, _, _)
SumOver(ns, S, sh) ==
    IF S = {} THEN 0
    ELSE LET i == CHOOSE k \in S : TRUE IN sh[ns[i].id] + SumOver(ns, S \ {i}, sh)

(* C15: the subtree height of a node with no children in the input is its own
   height; of a node with children, max(own height, sum of the children's
   subtree heights + (number of children - 1) * 20). Every node of a
   well-formed forest has one. *)
C15_SubtreeHeightFormula ==
    (LaidOut /\ UniqueIds(nodes)) =>
        LET sh == subtreeHeights(nodes).map IN
        /\ WellFormed(nodes) => DOMAIN sh = IdsOf(nodes)
        /\ \A i \in DOMAIN nodes :
              nodes[i].id \in DOMAIN sh =>
                  LET kids == ChildrenOf(nodes, {i}) IN
                  sh[nodes[i].id] =
                      IF kids = {} THEN nodes[i].height
                      ELSE Max(nodes[i].height, SumOver(nodes, kids, sh) + (Cardinality(kids) - 1) * 20)

(* C15 witness: children of heights 60 and 100 under a parent of height 60
   give the parent the subtree height 180. *)
C15_Witness ==
    /\ LaidOut
    /\ nodes = LayoutInput(3, <<NULL, 1, 1>>, <<60, 60, 100>>)
    /\ subtreeHeights(nodes).map = (1 :> 180) @@ (2 :> 60) @@ (3 :> 100)

(* The node at position i is a root or has a root among its ancestors *)
InTree(ns, i) == \E r \in {i} \cup AncestorsOf(ns, i) : ns[r].parentId = NULL

(* The positions of the children of the parent of i that come before i *)
EarlierSiblings(ns, i) == {j \in DOMAIN ns : j < i /\ ns[j].parentId = ns[i].parentId}

(* C16: a child is centred in its band, y = bandTop + (S - height) / 2, and
   its band top is the band top of its parent plus, for every child of that
   parent before it in the input, that child's subtree height + 20. *)
C16_ChildrenBandsFromParentBandTop ==
    (LaidOut /\ UniqueIds(nodes)) =>
        LET sh == subtreeHeights(nodes).map
            out == displayedNodes.nodes
        IN \A i \in DOMAIN nodes : \A p \in ParentsOf(nodes, {i}) :
              InTree(nodes, p) =>
                  LET before == EarlierSiblings(nodes, i)
                      parentTop2 == BandTop2(nodes[p], out[p].y2, sh[nodes[p].id])
                      top2 == parentTop2 + 2 * (SumOver(nodes, before, sh) + 20 * Cardinality(before))
                  IN out[i].y2 = top2 + (sh[nodes[i].id] - nodes[i].height)

(* C16 witness: A(h=60) with children B(h=60), C(h=100) and rootY = 50:
   A.y = 110, B.y = 50, C.y = 130. *)
C16_Witness ==
    /\ LaidOut
    /\ nodes = LayoutInput(3, <<NULL, 1, 1>>, <<60, 60, 100>>)
    /\ displayedNodes.nodes[1].y2 = 2 * 110
    /\ displayedNodes.nodes[2].y2 = 2 * 50
    /\ displayedNodes.nodes[3].y2 = 2 * 130

(* C17: each root has x = 50 and each node whose parent is in the input has
   x = the parent's output x + the parent's width + 120, in every layout of a
   collection with distinct ids and no cycle. *)
C17_XFromParent ==
    (LaidOut /\ UniqueIds(nodes) /\ Acyclic(nodes)) =>
        LET out == displayedNodes.nodes IN
        \A i \in DOMAIN nodes :
            /\ nodes[i].parentId = NULL => out[i].x = 50
            /\ \A p \in ParentsOf(nodes, {i}) : out[i].x = out[p].x + nodes[p].width + 120

(* The positions of the roots that come before position i *)
EarlierRoots(ns, i) == {j \in DOMAIN ns : j < i /\ ns[j].parentId = NULL}

(* C18: the band top of a root is 50 plus, for every root before it in the
   input, that root's subtree height + 40; the root is at x = 50, centred in
   its band. *)
C18_RootsStackedInInputOrder ==
    (LaidOut /\ UniqueIds(nodes)) =>
        LET sh == subtreeHeights(nodes).map
            out == displayedNodes.nodes
        IN \A i \in DOMAIN nodes :
              nodes[i].parentId = NULL =>
                  LET before == EarlierRoots(nodes, i)
                      top == 50 + SumOver(nodes, before, sh) + 40 * Cardinality(before)
                  IN /\ out[i].x = 50
                     /\ out[i].y2 = 2 * top + (sh[nodes[i].id] - nodes[i].height)

(* C18 witness: after a first tree of subtree height 180 the second root, a
   childless card, is at (50, 270). *)
C18_Witness ==
    /\ LaidOut
    /\ nodes = LayoutInput(4, <<NULL, 1, 1, NULL>>, <<60, 60, 100, 60>>)
    /\ subtreeHeights(nodes).map[1] = 180
    /\ displayedNodes.nodes[4].x = 50
    /\ displayedNodes.nodes[4].y2 = 2 * 270

(* The collection after drags wrote other x, y into the stored nodes *)
Dragged(ns) == [i \in DOMAIN ns |-> [ns[i] EXCEPT !.x = 300 + i, !.y2 = 2 * (400 + i)]]

XYOf(ns) == [i \in DOMAIN ns |-> <<ns[i].x, ns[i].y2>>]

(* C19: the output positions do not depend on the incoming x, y: the layout of
   the collection with other incoming x, y gives every node the same (x, y),
   for every collection with distinct ids and no cycle. *)
C19_PositionsIndependentOfIncomingXY ==
    (LaidOut /\ UniqueIds(nodes) /\ Acyclic(nodes)) =>
        XYOf(layoutTree(Dragged(nodes)).nodes) = XYOf(displayedNodes.nodes)

(* The rectangles of two output nodes, [x, x + width) by [y, y + height), intersect *)
RectanglesIntersect(a, b) ==
    /\ a.x < b.x + b.width /\ b.x < a.x + a.width
    /\ a.y2 < b.y2 + 2 * b.height /\ b.y2 < a.y2 + 2 * a.height

(* C25: in a layout of a well-formed forest no two distinct nodes' rectangles
   intersect; a node's rectangle lies inside its band, a child's band inside
   its parent's band, and a descendant strictly to the right of an ancestor. *)
C25_RectanglesDisjoint ==
    (LaidOut /\ WellFormed(nodes)) =>
        LET sh == subtreeHeights(nodes).map
            out == displayedNodes.nodes
            top2(i) == BandTop2(nodes[i], out[i].y2, sh[nodes[i].id])
            bottom2(i) == BandBottom2(nodes[i], out[i].y2, sh[nodes[i].id])
        IN /\ \A i, j \in DOMAIN nodes : i # j => ~RectanglesIntersect(out[i], out[j])
           /\ \A i \in DOMAIN nodes : top2(i) <= out[i].y2 /\ out[i].y2 + 2 * out[i].height <= bottom2(i)
           /\ \A i \in DOMAIN nodes : \A p \in ParentsOf(nodes, {i}) : top2(p) <= top2(i) /\ bottom2(i) <= bottom2(p)
           /\ \A i \in DOMAIN nodes : \A a \in AncestorsOf(nodes, i) : out[a].x + out[a].width <= out[i].x

(* C25 witness: two trees, the first with a child whose subtree makes the
   first root's band taller than the root's card. *)
C25_Witness ==
    /\ LaidOut /\ WellFormed(nodes)
    /\ Len(nodes) = 4
    /\ Len(rootsOf(nodes)) = 2
    /\ \E r \in DOMAIN nodes :
          /\ nodes[r].parentId = NULL
          /\ subtreeHeights(nodes).map[nodes[r].id] > nodes[r].height
          /\ \E q \in DOMAIN nodes : q > r /\ nodes[q].parentId = NULL
    /\ \A i, j \in DOMAIN nodes : i # j => ~RectanglesIntersect(displayedNodes.nodes[i], displayedNodes.nodes[j])

(* The node at position i is on a cycle of the parentId edges or below one *)
OnOrBelowCycle(ns, i) == \E a \in {i} \cup AncestorsOf(ns, i) : a \in AncestorsOf(ns, a)

(* C26: layoutTree returns on every collection with distinct ids, also when
   the parentId edges have a cycle, and the nodes on or below a cycle come
   back with their incoming x, y. *)
C26_TerminatesOnCycles ==
    (lastOp.op = "layoutTree" /\ UniqueIds(nodes)) =>
        /\ displayedNodes.ok
        /\ Len(displayedNodes.nodes) = Len(nodes)
        /\ \A i \in DOMAIN nodes :
              OnOrBelowCycle(nodes, i) =>
                  /\ displayedNodes.nodes[i].x = nodes[i].x
                  /\ displayedNodes.nodes[i].y2 = nodes[i].y2

(* C26 witness: a collection with a cycle, a node below it and a root; the
   root is laid out, the others are not. *)
C26_Witness ==
    /\ LaidOut
    /\ \E i, j, r \in DOMAIN nodes :
          /\ i \in AncestorsOf(nodes, i)
          /\ j \notin AncestorsOf(nodes, j) /\ OnOrBelowCycle(nodes, j)
          /\ nodes[r].parentId = NULL
          /\ displayedNodes.nodes[r].x = 50
          /\ displayedNodes.nodes[j].x = 0

----------------------------------------------------------------------------
(* SpecFilter: the displayedNodes pipeline applied to forests of at most
   MaxForest nodes (every forest of fewer nodes; of MaxForest nodes, those
   whose parents precede their children in the collection), under every
   scenario: a filter setting, the content of the nodes that it is meant to
   hit, and for each node whether it has that content or the plain one. *)

Content(text, notes, tags, subtasks, ownerIds, priority, meetingIds, links) ==
    [text |-> text, notes |-> notes, tags |-> tags, subtasks |-> subtasks, ownerIds |-> ownerIds,
     priority |-> priority, meetingIds |-> meetingIds, links |-> links]

(* The plain content: matched by none of the scenarios' filters. Its notes hold
   the letter a in markup only. *)
PlainContent ==
    Content(<<"b">>, <<[markup |-> TRUE, text |-> <<"a">>], [markup |-> FALSE, text |-> <<"b">>]>>,
            << <<"b">> >>, <<>>, <<2>>, 1, <<2>>, <<>>)

Scenario(query, pf, nodeFilter, meetingFilter, hit) ==
    [query |-> query, pf |-> pf, nodeFilter |-> nodeFilter, meetingFilter |-> meetingFilter, hit |-> hit]

TextQuery == <<" ", "A">>

TextScenarios ==
    { Scenario(TextQuery, 0, NULL, NULL, [PlainContent EXCEPT !.text = <<"b", "A">>]),
      Scenario(TextQuery, 0, NULL, NULL,
               [PlainContent EXCEPT !.notes = <<[markup |-> TRUE, text |-> <<"b">>], [markup |-> FALSE, text |-> <<"A">>]>>]),
      Scenario(TextQuery, 0, NULL, NULL, [PlainContent EXCEPT !.tags = << <<"b">>, <<"a", "b">> >>]),
      Scenario(TextQuery, NULL, NULL, NULL, [PlainContent EXCEPT !.subtasks = << <<"A">> >>, !.links = <<1>>]),
      Scenario(TextQuery, NULL, NULL, NULL, [PlainContent EXCEPT !.ownerIds = <<2, 1>>]) }

PriorityScenarios == { Scenario(<<>>, 2, NULL, NULL, [PlainContent EXCEPT !.priority = 2]) }

MeetingScenarios == { Scenario(<<>>, 0, NULL, 3, [PlainContent EXCEPT !.meetingIds = <<2, 3>>]) }

(* The focus filter on each node of the collection and on an id it does not have *)
FocusScenarios(n) == { Scenario(<<>>, 0, f, NULL, [PlainContent EXCEPT !.priority = 2]) : f \in 1..(n + 1) }

NoFilterScenarios ==
    { Scenario(<<>>, NULL, NULL, NULL, [PlainContent EXCEPT !.subtasks = << <<"A">> >>]),
      Scenario(<<" ", " ">>, 0, NULL, NULL, [PlainContent EXCEPT !.links = <<1>>]) }

Scenarios(n) == TextScenarios \cup PriorityScenarios \cup MeetingScenarios \cup FocusScenarios(n) \cup NoFilterScenarios

FilterOwners == <<[id |-> 1, name |-> <<"A", "b">>], [id |-> 2, name |-> <<"B">>]>>

FilterInput(n, parent, hits, sc) ==
    [i \in 1..n |->
        LET c == IF i \in hits THEN sc.hit ELSE PlainContent IN
        Node(i, parent[i], c.text, c.notes, c.tags, c.subtasks, c.ownerIds, c.priority, c.meetingIds,
             c.links, 0, 0, BASE_NODE_HEIGHT)]

ParentsFirst(n, parent) == \A i \in 1..n : parent[i] = NULL \/ parent[i] < i

InitFilter ==
    /\ \E n \in 0..MaxForest :
         \E parent \in [1..n -> {NULL} \cup 1..n] :
            /\ IF n = MaxForest THEN ParentsFirst(n, parent)
               ELSE Acyclic(LayoutInput(n, parent, [i \in 1..n |-> BASE_NODE_HEIGHT]))
            /\ \E hits \in SUBSET (1..n), sc \in Scenarios(n) :
                  /\ nodes = FilterInput(n, parent, hits, sc)
                  /\ searchQuery = sc.query
                  /\ priorityFilter = sc.pf
                  /\ filterByNodeId = sc.nodeFilter
                  /\ filterByMeetingId = sc.meetingFilter
    /\ owners = FilterOwners
    /\ meetings = <<>>
    /\ reparentingNodeId = NULL
    /\ now = 1
    /\ hung = FALSE
    /\ displayedNodes = [ok |-> TRUE, nodes |-> <<>>]
    /\ lastOp = Op("init", NULL, "")

ComputeDisplayedNodes ==
    /\ lastOp.op = "init"
    /\ displayedNodes' = displayedNodesOf(nodes, owners, searchQuery, priorityFilter, filterByNodeId, filterByMeetingId)
    /\ lastOp' = Op("displayedNodes", NULL, "")
    /\ UNCHANGED <<nodes, owners, meetings, searchQuery, priorityFilter, filterByNodeId,
                   filterByMeetingId, reparentingNodeId, now, hung>>

NextFilter == ComputeDisplayedNodes

SpecFilter == InitFilter /\ [][NextFilter]_vars

Displayed == lastOp.op = "displayedNodes" /\ displayedNodes.ok

(* The ids of the filtered output *)
DisplayedIds == IdsOf(displayedNodes.nodes)

(* The positions, in the stored collection, of the nodes of the filtered output *)
DisplayedPositions == {i \in DOMAIN nodes : nodes[i].id \in DisplayedIds}

(* Which filter mode the state is in, by the precedence of the pipeline *)
MeetingMode == Truthy(filterByMeetingId)

FocusMode == ~MeetingMode /\ Truthy(filterByNodeId)

PriorityMode == ~MeetingMode /\ ~FocusMode /\ isPriorityFilterActive(priorityFilter)

TextMode == ~MeetingMode /\ ~FocusMode /\ ~PriorityMode /\ Len(activeFilter(searchQuery)) > 0

MatchMode == MeetingMode \/ PriorityMode \/ TextMode

(* The positions of the nodes that the active text, priority or meeting filter matches *)
MatchingPositions ==
    {i \in DOMAIN nodes :
        \/ MeetingMode /\ isMeetingMatch(nodes[i], filterByMeetingId)
        \/ PriorityMode /\ isPriorityMatch(nodes[i], priorityFilter)
        \/ TextMode /\ isTextMatch(nodes[i], MapById(owners), activeFilter(searchQuery))}

AncestorsOfAll(ns, S) == UNION {AncestorsOf(ns, i) : i \in S}

(* C6: under the text, priority and meeting filters, every node of the filtered
   output has all its ancestors in the filtered output. *)
C6_AncestorClosure ==
    (Displayed /\ MatchMode /\ WellFormed(nodes)) =>
        \A i \in DisplayedPositions : AncestorsOf(nodes, i) \subseteq DisplayedPositions

(* C6 witness: a filtered output holding a node together with an ancestor of it
   that the filter does not match, while some node is left out. *)
C6_Witness ==
    /\ Displayed /\ MatchMode /\ WellFormed(nodes)
    /\ \E i \in DisplayedPositions : \E a \in AncestorsOf(nodes, i) : a \notin MatchingPositions /\ a \in DisplayedPositions
    /\ DisplayedPositions # DOMAIN nodes

FocusPositions == {i \in DOMAIN nodes : nodes[i].id = filterByNodeId}

(* C7: with the focus filter on an existing node f of a well-formed forest, the
   filtered output is exactly ancestors(f), f and descendants(f). *)
C7_FocusIsAncestorsSelfDescendants ==
    (Displayed /\ FocusMode /\ WellFormed(nodes) /\ FocusPositions # {}) =>
        DisplayedPositions =
            UNION {AncestorsOf(nodes, f) \cup {f} \cup DescendantsOf(nodes, f) : f \in FocusPositions}

(* C7 witness: a focus node with an ancestor and a descendant, shown with both,
   while some other node is left out. *)
C7_Witness ==
    /\ Displayed /\ FocusMode /\ WellFormed(nodes)
    /\ \E f \in FocusPositions :
         /\ AncestorsOf(nodes, f) # {}
         /\ DescendantsOf(nodes, f) # {}
         /\ DisplayedPositions = AncestorsOf(nodes, f) \cup {f} \cup DescendantsOf(nodes, f)
    /\ DisplayedPositions # DOMAIN nodes

(* C8: under the text, priority and meeting filters the filtered output is
   exactly the matching nodes and their ancestors. *)
C8_MatchesAndAncestorsOnly ==
    (Displayed /\ MatchMode /\ WellFormed(nodes)) =>
        /\ DisplayedPositions = MatchingPositions \cup AncestorsOfAll(nodes, MatchingPositions)
        /\ Len(displayedNodes.nodes) = Cardinality(DisplayedPositions)

(* C8 witness: the text filter matches only a node three levels below a root;
   the output is the 4 nodes leaf, parent, grandparent and root. *)
C8_Witness ==
    /\ Displayed /\ TextMode /\ WellFormed(nodes)
    /\ \E leaf \in DOMAIN nodes :
         /\ MatchingPositions = {leaf}
         /\ Cardinality(AncestorsOf(nodes, leaf)) = 3
         /\ Len(displayedNodes.nodes) = 4

NoFilterActive ==
    /\ trim(searchQuery) = <<>>
    /\ priorityFilter \in {NULL, 0}
    /\ filterByNodeId = NULL
    /\ filterByMeetingId = NULL

(* A node of the output is the stored node but for its position and its height *)
SameNode(out, stored) ==
    [out EXCEPT !.x = 0, !.y2 = 0, !.height = 0] = [stored EXCEPT !.x = 0, !.y2 = 0, !.height = 0]

(* C9: with no filter active (query empty or blank, priority null or 0, no focus
   node, no meeting) displayedNodes holds every node of the collection, in the
   order of the collection. *)
C9_NoFilterIsIdentity ==
    (Displayed /\ NoFilterActive) =>
        /\ Len(displayedNodes.nodes) = Len(nodes)
        /\ \A i \in DOMAIN nodes : SameNode(displayedNodes.nodes[i], nodes[i])

(* C9 witness: a blank, non-empty query and priority 0 over several nodes *)
C9_Witness ==
    /\ Displayed /\ NoFilterActive
    /\ Len(searchQuery) > 0 /\ priorityFilter = 0
    /\ Len(nodes) >= 3
    /\ Len(displayedNodes.nodes) = Len(nodes)

(* Some filter is active on the collection *)
FilterActive == MatchMode \/ FocusMode

(* The position in the stored collection of the k-th node of the output *)
StoredPosition(k) == CHOOSE i \in DOMAIN nodes : nodes[i].id = displayedNodes.nodes[k].id

(* C14: for a well-formed forest under any filter mode, the filtered
   collection holds the parent of each of its non-root nodes, and every node
   of displayedNodes has the position the layout computes: x = 50 + 340 per
   ancestor and y at or below the top margin, not its incoming (0, 0). *)
C14_EveryDisplayedNodePositioned ==
    (Displayed /\ WellFormed(nodes)) =>
        LET out == displayedNodes.nodes IN
        \A k \in DOMAIN out :
            /\ out[k].parentId = NULL \/ out[k].parentId \in DisplayedIds
            /\ out[k].x = 50 + (NODE_WIDTH + 120) * Cardinality(AncestorsOf(nodes, StoredPosition(k)))
            /\ out[k].y2 >= 2 * 50

(* C14 witness: a filter leaves out part of the forest and shows a node that
   is not a root, laid out in the second column or further right. *)
C14_Witness ==
    /\ Displayed /\ WellFormed(nodes) /\ FilterActive
    /\ DisplayedPositions # DOMAIN nodes
    /\ \E k \in DOMAIN displayedNodes.nodes :
          /\ displayedNodes.nodes[k].parentId \in DisplayedIds
          /\ displayedNodes.nodes[k].x >= 50 + NODE_WIDTH + 120

(* A node but for its position *)
WithoutXY(n) == [n EXCEPT !.x = 0, !.y2 = 0]

(* C20: displayedNodes has the length of the collection handed to layoutTree
   and its i-th node is the i-th node of that collection but for x and y;
   hence it lists the visible nodes in the order of the stored collection,
   each with the stored id, parentId, width and content. *)
C20_LayoutKeepsNodesAndOrder ==
    Displayed =>
        LET vis == visibleNodesOf(nodes, owners, searchQuery, priorityFilter, filterByNodeId, filterByMeetingId).nodes
            out == displayedNodes.nodes
            shown == SelectSeq(nodes, LAMBDA n : n.id \in DisplayedIds)
        IN /\ Len(out) = Len(vis)
           /\ \A i \in DOMAIN out : WithoutXY(out[i]) = WithoutXY(vis[i])
           /\ Len(out) = Len(shown)
           /\ \A i \in DOMAIN out : SameNode(out[i], shown[i])

(* C20 witness: a filter shows some of the nodes, among them a node that
   comes before its parent in the stored collection, and the output keeps
   that order. *)
C20_Witness ==
    /\ Displayed /\ FilterActive
    /\ Len(displayedNodes.nodes) < Len(nodes)
    /\ \E i, j \in DOMAIN displayedNodes.nodes :
          /\ i < j
          /\ displayedNodes.nodes[i].parentId = displayedNodes.nodes[j].id
          /\ displayedNodes.nodes[i].x > displayedNodes.nodes[j].x

(* C21: every node of displayedNodes has the height 60 + 28 per subtask + 40
   + 35 when it has a link, whatever height is stored on the node. *)
C21_DisplayedHeightIsDerived ==
    Displayed =>
        \A k \in DOMAIN displayedNodes.nodes :
            LET n == displayedNodes.nodes[k] IN
            n.height = 60 + 28 * Len(n.subtasks) + 40 + (IF Len(n.links) > 0 THEN 35 ELSE 0)

(* C21 witness: a displayed node with a subtask and a link has height 163
   while 60 is stored on it. *)
C21_Witness ==
    /\ Displayed
    /\ \E k \in DOMAIN displayedNodes.nodes :
          /\ Len(displayedNodes.nodes[k].subtasks) = 1
          /\ Len(displayedNodes.nodes[k].links) = 1
          /\ displayedNodes.nodes[k].height = 163
          /\ nodes[StoredPosition(k)].height = 60

----------------------------------------------------------------------------
(* Claims about the application: the pipeline on the reachable states, the
   reparent mode, the filter buttons, the import *)

(* C22: in every reachable state of the application the displayedNodes
   computation returns. *)
C22_DisplayedNodesTerminates == displayedNodes.ok

(* C23: displayedNodes is the value a fresh computation gives on the current
   nodes, owners and filters. *)
C23_MemoIsFresh ==
    displayedNodes = displayedNodesOf(nodes, owners, searchQuery, priorityFilter, filterByNodeId, filterByMeetingId)

(* C23 witness: an import replaced the nodes while a filter is on, and the
   nodes displayed are nodes of the imported collection. *)
C23_Witness ==
    /\ lastOp = Op("handleImportFile", NULL, "imported")
    /\ FiltersActive # {}
    /\ displayedNodes.ok /\ displayedNodes.nodes # <<>>
    /\ IdsOf(displayedNodes.nodes) \subseteq IdsOf(nodes)
    /\ 1 \notin IdsOf(nodes)

(* C24: displayedNodes is empty when the collection is empty and when a
   filter is active that matches no node: no node has the text, the priority
   or the meeting, or no node has the focus id. *)
C24_NoMatchShowsNothing ==
    (/\ displayedNodes.ok
     /\ \/ nodes = <<>>
        \/ MatchMode /\ MatchingPositions = {}
        \/ FocusMode /\ FocusPositions = {})
    => displayedNodes.nodes = <<>>

(* C27: a click on a card does nothing when reparentingNodeId is null; when
   it is not, a click that returns leaves reparentingNodeId null; and
   handleSetReparentingMode on the node being reparented, the Escape key and
   a mouse-down on the map leave reparentingNodeId null and the collection
   as it was. *)
C27_ReparentModeOneShot ==
    [][/\ \A t \in IdsOf(nodes) :
             handleNodeClick(t) =>
                 IF reparentingNodeId = NULL
                 THEN UNCHANGED <<nodes, owners, meetings, searchQuery, priorityFilter, filterByNodeId,
                                  filterByMeetingId, reparentingNodeId, displayedNodes, hung>>
                 ELSE hung' \/ reparentingNodeId' = NULL
       /\ \A n \in IdsOf(nodes) :
             (reparentingNodeId = n /\ handleSetReparentingMode(n)) =>
                 reparentingNodeId' = NULL /\ nodes' = nodes
       /\ handleKeyDown("Escape") => reparentingNodeId' = NULL /\ nodes' = nodes
       /\ handleMapMouseDown => reparentingNodeId' = NULL /\ nodes' = nodes]_vars

(* C27 witness: a reparent was rejected and the mode is off again. *)
C27_Witness ==
    /\ lastOp.op = "handleNodeClick" /\ lastOp.result = "rejected"
    /\ reparentingNodeId = NULL
    /\ Len(nodes) >= 2

(* C28: an accepted reparent of X onto T keeps the length and the order of
   the collection, leaves every node with another id as it was, and changes
   nothing of X but its parentId, which becomes T. *)
C28_ReparentChangesOnlyParentId ==
    [][\A t \in IdsOf(nodes) :
          (handleNodeClick(t) /\ lastOp'.result = "accepted") =>
              /\ Len(nodes') = Len(nodes)
              /\ \A i \in DOMAIN nodes :
                    nodes'[i] = IF nodes[i].id = reparentingNodeId
                                THEN [nodes[i] EXCEPT !.parentId = t]
                                ELSE nodes[i]]_vars

(* C28 witness: an accepted reparent in a collection of three nodes moved a
   node that is not the last one under the node clicked. *)
C28_Witness ==
    /\ lastOp.op = "handleNodeClick" /\ lastOp.result = "accepted"
    /\ Len(nodes) = 3 /\ UniqueIds(nodes)
    /\ \E i \in 1..2 : nodes[i].parentId = lastOp.arg

(* C29, as the code has it: a call of handlePriorityFilterClick,
   handleFilterByMeeting or handleTextFilterClick with the value its filter
   has leaves no filter active; with another value it makes that the value of
   its filter and resets the other three. *)
C29_ToggleOrReplace ==
    [][/\ \A p \in 1..3 :
             handlePriorityFilterClick(p) =>
                 IF priorityFilter = p THEN FiltersActive' = {}
                 ELSE priorityFilter' = p /\ FiltersActive' = {2}
       /\ \A m \in IdsOf(meetings) :
             handleFilterByMeeting(m) =>
                 IF filterByMeetingId = m THEN FiltersActive' = {}
                 ELSE filterByMeetingId' = m /\ FiltersActive' = {4}
       /\ \A q \in Queries :
             handleTextFilterClick(q) =>
                 IF searchQuery = q THEN FiltersActive' = {}
                 ELSE searchQuery' = q /\ FiltersActive' = {1}]_vars

(* C29 witness: the priority button pressed last turned its filter off. *)
C29_Witness ==
    /\ lastOp.op = "handlePriorityFilterClick"
    /\ priorityFilter = 0
    /\ FiltersActive = {}

(* C29, as the specification has it: the second of two calls in a row of
   handlePriorityFilterClick, handleFilterByMeeting or handleTextFilterClick
   with the same argument leaves no filter active. *)
C29_SecondCallLeavesNoFilter ==
    [][/\ \A p \in 1..3 :
             (lastOp = Op("handlePriorityFilterClick", p, "") /\ handlePriorityFilterClick(p))
                 => FiltersActive' = {}
       /\ \A m \in IdsOf(meetings) :
             (lastOp = Op("handleFilterByMeeting", m, "") /\ handleFilterByMeeting(m))
                 => FiltersActive' = {}
       /\ \A q \in Queries :
             (lastOp = Op("handleTextFilterClick", QueryNo(q), "") /\ handleTextFilterClick(q))
                 => FiltersActive' = {}]_vars

(* C30: handleImportFile on a file that is not JSON or has no array nodes or
   no array owners leaves nodes, owners and meetings as they were; on any
   other file it replaces the three, meetings by the empty list when the file
   has no array meetings. *)
C30_ImportAllOrNothing ==
    [][\A file \in ImportFiles :
          handleImportFile(file) =>
              IF file.parses /\ file.hasNodes /\ file.hasOwners
              THEN /\ nodes' = sanitizedNodes(file.nodes)
                   /\ owners' = file.owners
                   /\ meetings' = IF file.hasMeetings THEN sanitizedMeetings(file.meetings) ELSE <<>>
              ELSE UNCHANGED <<nodes, owners, meetings>>]_vars

====
